---------------------------- MODULE Spec2Model ----------------------------
(***************************************************************************)
(* Model of xfold's atom layout machinery (src/xfold/nn/atom_layout.py)    *)
(* and of the control flow of the atom cross-attention encoder             *)
(* (src/xfold/nn/atom_cross_attention.py).                                 *)
(*                                                                         *)
(* Tensors are kept as a shape plus row-major data living in a heap of     *)
(* storages, so that views (reshape) and copies (advanced indexing) can be *)
(* told apart.  Element values are integers; a float tensor may also hold  *)
(* the two non-finite codes NaN and PosInf.                                *)
(***************************************************************************)
EXTENDS Integers, Sequences, FiniteSets, TLC

VARIABLES
    heap,          \* storage id -> row-major data of that storage
    arr,           \* convert's input tensor: [shape, dtype, st]
    gather_info,   \* GatherInfo: [gather_idxs, gather_mask, input_shape] (tensors)
    layout_axes,   \* convert's layout_axes tuple
    ret,           \* what the last call produced: [exc, out]
    tret,          \* what convert returned for the truncated array
    pc,            \* position of the caller
    layout,        \* an AtomLayout (self)
    other,         \* a second AtomLayout (the right operand of ==)
    padded,        \* result of layout.copy_and_pad_to(shape): [exc, obj]
    stacked,       \* result of layout.to_array(): [exc, arr]
    lret,          \* result of the last AtomLayout operation
    lpc,           \* which AtomLayout operation ran last
    encoder,       \* an AtomCrossAttEncoder: its three with_* flags
    learned,       \* what the encoder's learned layers compute (see below)
    batch,         \* the feat_batch.Batch given to forward (tensors in eheap)
    eargs,         \* forward's optional inputs, NoTensor for None
    eheap,         \* the storages of the tensors forward works on
    eret,          \* what forward produced: [exc, out, offsets_valid]
    epc,           \* position of forward's caller
    attn,          \* an attention module (AttentionPairBias or MSAAttention)
    ain,           \* the inputs given to its forward
    aret,          \* what its forward produced
    apc            \* position of that forward's caller

cvars == <<heap, arr, gather_info, layout_axes, ret, tret, pc>>
lvars == <<layout, other, padded, stacked, lret, lpc>>
evars == <<encoder, learned, batch, eargs, eheap, eret, epc>>
avars == <<attn, ain, aret, apc>>
vars == <<cvars, lvars, evars, avars>>

---------------------------------------------------------------------------
(* Bounds of the explored inputs *)

MaxDim == 2       \* axis sizes range over 1..MaxDim
MaxGather == 2    \* a gather map holds at most MaxGather indices
MaxSlots == 2     \* an AtomLayout holds at most MaxSlots atom slots

\* convert dispatches on layout_axes_begin = 0..4 leading batch axes
MaxBatchAxes == 4

---------------------------------------------------------------------------
(* Python / torch primitives used by convert *)

Max2(a, b) == IF a >= b THEN a ELSE b
Min2(a, b) == IF a <= b THEN a ELSE b

RECURSIVE Prod(_)
Prod(s) == IF Len(s) = 0 THEN 1 ELSE Head(s) * Prod(Tail(s))

\* tuple(range(a, b))
Range(a, b) == [i \in 1..Max2(b - a, 0) |-> a + i - 1]

\* a slice bound as Python resolves it against a sequence of length n
SliceBound(i, n) == IF i < 0 THEN Max2(i + n, 0) ELSE Min2(i, n)

\* s[start:stop]
PySlice(s, start, stop) ==
    LET lo == SliceBound(start, Len(s))
        hi == SliceBound(stop, Len(s))
    IN  IF hi <= lo THEN << >> ELSE SubSeq(s, lo + 1, hi)

\* s[:stop] and s[start:]
PySliceTo(s, stop) == PySlice(s, 0, stop)
PySliceFrom(s, start) == PySlice(s, start, Len(s))

Ones(n) == [i \in 1..n |-> 1]

\* Non-finite float values, coded outside the finite values the inputs use.
NaN == -1
PosInf == -2
IsFinite(v) == v # NaN /\ v # PosInf

\* x * m for an element x of a tensor of the given dtype and a bool m (0 / 1):
\* the bool is promoted to the tensor's dtype, so a float NaN or inf times
\* False is NaN.
MaskMul(x, m, dtype) ==
    IF dtype = "float32"
    THEN IF x = NaN THEN NaN
         ELSE IF m = 1 THEN x
         ELSE IF x = PosInf THEN NaN ELSE 0
    ELSE IF m = 1 THEN x ELSE 0

NoTensor == [shape |-> << >>, dtype |-> "none", st |-> 0]
Raise(h, e) == [exc |-> e, out |-> NoTensor, heap |-> h]
Return(h, t) == [exc |-> "", out |-> t, heap |-> h]

\* A fresh storage holding data d
NewStorage(h) == Len(h) + 1
Alloc(h, d) == Append(h, d)

\* t.reshape(shape): a view on the same storage
Reshape(t, shape) == [t EXCEPT !.shape = shape]

\* index i of an axis of size n as torch resolves it (negative counts from the end)
NormIdx(i, n) == IF i < 0 THEN i + n ELSE i
IdxInRange(i, n) == -n <= i /\ i < n

\* (mutant of GatherData: the gather ignores the batch axes before the layout axis)
GatherDataNoBatch(data, shape, axis, idxs) ==
    LET L == shape[axis + 1]
        F == Prod(SubSeq(shape, axis + 2, Len(shape)))
        B == Prod(SubSeq(shape, 1, axis))
        G == Len(idxs)
    IN  [k \in 1..(B * G * F) |->
            LET g == ((k - 1) \div F) % G
                f == (k - 1) % F
            IN  data[NormIdx(idxs[g + 1], L) * F + f + 1]]

\* data of t[:, ..., idxs, ...] with idxs at axis position `axis` (0-based)
GatherData(data, shape, axis, idxs) ==
    LET L == shape[axis + 1]
        F == Prod(SubSeq(shape, axis + 2, Len(shape)))
        B == Prod(SubSeq(shape, 1, axis))
        G == Len(idxs)
    IN  [k \in 1..(B * G * F) |->
            LET b == (k - 1) \div (G * F)
                g == ((k - 1) \div F) % G
                f == (k - 1) % F
            IN  data[b * L * F + NormIdx(idxs[g + 1], L) * F + f + 1]]

\* (mutant of IndexAt: the gathered axes come out flattened to one axis)
IndexAtFlat(h, t, axis, idx) ==
    LET d == GatherData(h[t.st], t.shape, axis, h[idx.st])
    IN  [heap |-> Alloc(h, d),
         out |-> [shape |-> SubSeq(t.shape, 1, axis) \o <<Prod(idx.shape)>>
                            \o SubSeq(t.shape, axis + 2, Len(t.shape)),
                  dtype |-> t.dtype,
                  st |-> NewStorage(h)]]

\* Advanced indexing copies: the result lives in a fresh storage.
IndexAt(h, t, axis, idx) ==
    LET d == GatherData(h[t.st], t.shape, axis, h[idx.st])
    IN  [heap |-> Alloc(h, d),
         out |-> [shape |-> SubSeq(t.shape, 1, axis) \o idx.shape
                            \o SubSeq(t.shape, axis + 2, Len(t.shape)),
                  dtype |-> t.dtype,
                  st |-> NewStorage(h)]]

\* (mutant of GatherResult: the gathered data overwrites the input's storage and
\* the result is a view on it)
GatherResultView(h, t, axis, idx) ==
    LET d == GatherData(h[t.st], t.shape, axis, h[idx.st])
    IN  [heap |-> [h EXCEPT ![t.st] = d],
         out |-> [shape |-> SubSeq(t.shape, 1, axis) \o idx.shape
                            \o SubSeq(t.shape, axis + 2, Len(t.shape)),
                  dtype |-> t.dtype,
                  st |-> t.st]]

\* out_arr = arr_flattened[:, ..., gather_idxs, ...] (lines 322-331)
GatherResult(h, t, axis, idx) == IndexAt(h, t, axis, idx)

\* out_arr *= mask.reshape((1,)*nb + mask.shape + (1,)*nf), in place
MulMaskInPlace(h, out, mask, nb, nf) ==
    LET G == Prod(mask.shape)
        F == Prod(SubSeq(out.shape, nb + Len(mask.shape) + 1, Len(out.shape)))
        m == h[mask.st]
        d == h[out.st]
    IN  [h EXCEPT ![out.st] =
            [k \in 1..Len(d) |-> MaskMul(d[k], m[(((k - 1) \div F) % G) + 1], out.dtype)]]

---------------------------------------------------------------------------
(* convert(gather_info, arr, layout_axes) *)

NormAxes(axes, ndim) ==
    [i \in 1..Len(axes) |-> IF axes[i] >= 0 THEN axes[i] ELSE axes[i] + ndim]

\* (mutant of Incompatible: the first layout axis must have the size the gather
\* info expects)
IncompatibleUnlessEqual(layout_shape, input_shape) ==
    \/ Len(layout_shape) # Len(input_shape)
    \/ layout_shape[1] # input_shape[1]
    \/ Tail(layout_shape) # Tail(input_shape)

\* lines 298-312
Incompatible(layout_shape, input_shape) ==
    \/ Len(layout_shape) # Len(input_shape)
    \/ layout_shape[1] < input_shape[1]
    \/ Tail(layout_shape) # Tail(input_shape)

Convert(h, gi, a, axes) ==
    IF Len(axes) = 0 THEN Raise(h, "IndexError")
    ELSE
    LET la == NormAxes(axes, Len(a.shape))
        layout_axes_begin == la[1]
        layout_axes_end == la[Len(la)] + 1
    IN
    IF la # Range(layout_axes_begin, layout_axes_end)
    THEN Raise(h, "ValueError: layout_axes must be continuous")
    ELSE
    LET layout_shape == PySlice(a.shape, layout_axes_begin, layout_axes_end)
        input_shape == h[gi.input_shape.st]
    IN
    IF Incompatible(layout_shape, input_shape)
    THEN Raise(h, "ValueError: layout axes are incompatible")
    ELSE
    LET batch_shape == PySliceTo(a.shape, layout_axes_begin)
        features_shape == PySliceFrom(a.shape, layout_axes_end)
        arr_flattened_shape == batch_shape \o <<Prod(layout_shape)>> \o features_shape
    IN
    IF Prod(arr_flattened_shape) # Prod(a.shape)
    THEN Raise(h, "RuntimeError: invalid shape")
    ELSE
    IF layout_axes_begin \notin 0..MaxBatchAxes
    THEN Raise(h, "ValueError: only 4 batch axes supported")
    ELSE
    LET arr_flattened == Reshape(a, arr_flattened_shape)
        L == arr_flattened_shape[layout_axes_begin + 1]
        idxs == h[gi.gather_idxs.st]
    IN
    IF \E g \in 1..Len(idxs) : ~IdxInRange(idxs[g], L)
    THEN Raise(h, "IndexError")
    ELSE
    LET got == GatherResult(h, arr_flattened, layout_axes_begin, gi.gather_idxs)
        h2 == MulMaskInPlace(got.heap, got.out, gi.gather_mask,
                             Len(batch_shape), Len(features_shape))
    IN  Return(h2, got.out)


---------------------------------------------------------------------------
(* numpy arrays of Python objects, as AtomLayout uses them *)

\* Python objects held by the arrays: str, int (digits kept as text) and None
PyStr(s) == [t |-> "str", v |-> s]
PyInt(s) == [t |-> "int", v |-> s]
PyNone == [t |-> "NoneType", v |-> ""]
\* bool(o), as ndarray.astype(bool) applies it to an object array
Truthy(o) ==
    \/ o.t = "str" /\ o.v # ""
    \/ o.t = "int" /\ o.v # "0"

\* an ndarray: [shape, dtype, data (row-major)]; NoArray stands for a field that
\* is None
NoArray == [shape |-> << >>, dtype |-> "none", data |-> << >>]
IsNone(a) == a = NoArray
NdArray(shape, dtype, data) == [shape |-> shape, dtype |-> dtype, data |-> data]

\* flat (0-based) index <-> multi-index for a row-major shape
RECURSIVE Unravel(_, _)
Unravel(k, shape) ==
    IF Len(shape) = 0 THEN << >>
    ELSE <<k \div Prod(Tail(shape))>> \o Unravel(k % Prod(Tail(shape)), Tail(shape))
RECURSIVE Ravel(_, _)
Ravel(idx, shape) ==
    IF Len(shape) = 0 THEN 0
    ELSE idx[1] * Prod(Tail(shape)) + Ravel(Tail(idx), Tail(shape))

\* np.array_equal(a, b)
ArrayEqual(a, b) == a.shape = b.shape /\ a.data = b.data

\* a[mask] for a boolean mask of a's shape: the selected elements, in order
RECURSIVE MaskSelect(_, _)
MaskSelect(data, mask) ==
    IF Len(data) = 0 THEN << >>
    ELSE (IF Head(mask) THEN <<Head(data)>> ELSE << >>)
         \o MaskSelect(Tail(data), Tail(mask))

\* a[key] for a key that is a tuple of slices start:stop, one per axis
NpSlice(a, key) ==
    LET lo == [i \in 1..Len(a.shape) |-> SliceBound(key[i][1], a.shape[i])]
        hi == [i \in 1..Len(a.shape) |-> SliceBound(key[i][2], a.shape[i])]
        newshape == [i \in 1..Len(a.shape) |-> Max2(hi[i] - lo[i], 0)]
    IN  NdArray(newshape, a.dtype,
                [k \in 1..Prod(newshape) |->
                    LET mi == Unravel(k - 1, newshape)
                    IN  a.data[Ravel([i \in 1..Len(mi) |-> mi[i] + lo[i]], a.shape) + 1]])

\* np.pad(a, pad_width, constant_values=val), pad_width = ((before, after), ...)
NpPad(a, pad_width, val) ==
    LET newshape == [i \in 1..Len(a.shape) |->
                        pad_width[i][1] + a.shape[i] + pad_width[i][2]]
    IN  NdArray(newshape, a.dtype,
                [k \in 1..Prod(newshape) |->
                    LET mi == Unravel(k - 1, newshape)
                    IN  IF \A i \in 1..Len(mi) :
                              /\ pad_width[i][1] <= mi[i]
                              /\ mi[i] < pad_width[i][1] + a.shape[i]
                        THEN a.data[Ravel([i \in 1..Len(mi) |-> mi[i] - pad_width[i][1]],
                                          a.shape) + 1]
                        ELSE val])

---------------------------------------------------------------------------
(* AtomLayout *)

\* the dataclass fields in their order of declaration (lines 41-46)
FieldOrder == <<"atom_name", "res_id", "chain_id", "atom_element", "res_name", "chain_type">>
OptionalFields == {"atom_element", "res_name", "chain_type"}

\* attribute_names of __post_init__, the order the docstrings of to_array and
\* from_array list the fields in
AttributeNames ==
    <<"atom_name", "atom_element", "res_name", "res_id", "chain_id", "chain_type">>

NoLayout == [f \in {FieldOrder[i] : i \in 1..6} |-> NoArray]
Failed(e) == [exc |-> e, obj |-> NoLayout]
Made(l) == [exc |-> "", obj |-> l]

\* _assert_all_arrays_have_same_shape: every field that is present has the
\* expected shape
AssertAllArraysHaveSameShape(obj, expected_shape, attribute_names) ==
    \A i \in 1..Len(attribute_names) :
        IsNone(obj[attribute_names[i]]) \/ obj[attribute_names[i]].shape = expected_shape

\* (mutant of NewAtomLayout: __post_init__ does not check the shapes)
NewAtomLayoutUnchecked(atom_name, res_id, chain_id, atom_element, res_name, chain_type) ==
    LET self == [atom_name |-> atom_name, res_id |-> res_id, chain_id |-> chain_id,
                 atom_element |-> atom_element, res_name |-> res_name,
                 chain_type |-> chain_type]
    IN  IF atom_name.dtype # "object"
        THEN Failed("ValueError: atom_name must have dtype object")
        ELSE Made(self)

\* AtomLayout(...): the dataclass constructor followed by __post_init__
NewAtomLayout(atom_name, res_id, chain_id, atom_element, res_name, chain_type) ==
    LET self == [atom_name |-> atom_name, res_id |-> res_id, chain_id |-> chain_id,
                 atom_element |-> atom_element, res_name |-> res_name,
                 chain_type |-> chain_type]
    IN  IF ~AssertAllArraysHaveSameShape(self, atom_name.shape, AttributeNames)
        THEN Failed("ShapeError")
        ELSE IF atom_name.dtype # "object"
        THEN Failed("ValueError: atom_name must have dtype object")
        ELSE Made(self)

\* self.shape
ShapeOf(l) == l.atom_name.shape

\* self[key]
GetItem(self, key) ==
    NewAtomLayout(NpSlice(self.atom_name, key),
                  NpSlice(self.res_id, key),
                  NpSlice(self.chain_id, key),
                  IF ~IsNone(self.atom_element) THEN NpSlice(self.atom_element, key) ELSE NoArray,
                  IF ~IsNone(self.res_name) THEN NpSlice(self.res_name, key) ELSE NoArray,
                  IF ~IsNone(self.chain_type) THEN NpSlice(self.chain_type, key) ELSE NoArray)

\* (mutant of MaskedArrayEqual: the mask is ignored, every slot is compared)
UnmaskedArrayEqual(my_arr, other_arr, mask) == ArrayEqual(my_arr, other_arr)

\* np.array_equal(my_arr[mask], other_arr[mask])
MaskedArrayEqual(my_arr, other_arr, mask) ==
    MaskSelect(my_arr.data, mask) = MaskSelect(other_arr.data, mask)

\* self == other
Eq(self, othr) ==
    IF ~ArrayEqual(self.atom_name, othr.atom_name) THEN FALSE
    ELSE
    LET mask == [i \in 1..Len(self.atom_name.data) |-> Truthy(self.atom_name.data[i])]
    IN  IF \E field \in {"res_id", "chain_id"} :
               ~MaskedArrayEqual(self[field], othr[field], mask)
        THEN FALSE
        ELSE IF \E field \in OptionalFields :
                   /\ ~IsNone(self[field])
                   /\ ~IsNone(othr[field])
                   /\ ~MaskedArrayEqual(self[field], othr[field], mask)
        THEN FALSE
        ELSE TRUE

\* (mutant of PadWidth: the padding goes in front of each axis)
PadWidthBefore(old_shape, shape) ==
    [i \in 1..Len(old_shape) |-> <<shape[i] - old_shape[i], 0>>]

\* pad_width = [(0, new - old) for old, new in zip(self.atom_name.shape, shape)]
PadWidth(old_shape, shape) ==
    [i \in 1..Len(old_shape) |-> <<0, shape[i] - old_shape[i]>>]

\* self.copy_and_pad_to(shape)
CopyAndPadTo(self, shape) ==
    IF Len(shape) # Len(self.atom_name.shape)
    THEN Failed("ValueError: incompatible shape")
    ELSE IF \E i \in 1..Len(shape) : shape[i] < self.atom_name.shape[i]
    THEN Failed("ValueError: can't pad to a smaller shape")
    ELSE
    LET pad_width == PadWidth(self.atom_name.shape, shape)
        pad_val == PyStr("")
    IN  NewAtomLayout(
            NpPad(self.atom_name, pad_width, pad_val),
            NpPad(self.res_id, pad_width, PyInt("0")),
            NpPad(self.chain_id, pad_width, pad_val),
            IF ~IsNone(self.atom_element)
                THEN NpPad(self.atom_element, pad_width, pad_val) ELSE NoArray,
            IF ~IsNone(self.res_name)
                THEN NpPad(self.res_name, pad_width, pad_val) ELSE NoArray,
            IF ~IsNone(self.chain_type)
                THEN NpPad(self.chain_type, pad_width, pad_val) ELSE NoArray)

\* dataclasses.astuple(self): the field values in declaration order
AsTuple(self) == [i \in 1..6 |-> self[FieldOrder[i]]]

\* np.stack(arrays, axis=0) of arrays of one shape: an object array (str and int
\* rows are mixed) of shape (len(arrays),) + shape
RECURSIVE Concat(_)
Concat(ss) == IF Len(ss) = 0 THEN << >> ELSE Head(ss) \o Concat(Tail(ss))
NpStack(arrays) ==
    NdArray(<<Len(arrays)>> \o arrays[1].shape, "object",
            Concat([i \in 1..Len(arrays) |-> arrays[i].data]))

NoStack == [exc |-> "", arr |-> NoArray]

\* self.to_array()
ToArray(self) ==
    IF IsNone(self.atom_element) \/ IsNone(self.res_name) \/ IsNone(self.chain_type)
    THEN [exc |-> "ValueError: all optional fields need to be present", arr |-> NoArray]
    ELSE [exc |-> "", arr |-> NpStack(AsTuple(self))]

\* arr[i] along the first axis (0-based i): what iterating *arr yields
Row(a, i) ==
    LET n == Prod(Tail(a.shape))
    IN  NdArray(Tail(a.shape), a.dtype, SubSeq(a.data, i * n + 1, (i + 1) * n))

\* (mutant of FromArray: the rows are read in the order the docstring lists)
FromArrayDocOrder(a) ==
    IF a.shape[1] # 6 THEN Failed("ValueError: array must have shape (6, ...)")
    ELSE NewAtomLayout(Row(a, 0), Row(a, 3), Row(a, 4), Row(a, 1), Row(a, 2), Row(a, 5))

\* AtomLayout.from_array(arr): cls(*arr) binds the rows to the fields positionally
FromArray(a) ==
    IF a.shape[1] # 6 THEN Failed("ValueError: array must have shape (6, ...)")
    ELSE NewAtomLayout(Row(a, 0), Row(a, 1), Row(a, 2), Row(a, 3), Row(a, 4), Row(a, 5))

---------------------------------------------------------------------------
(* AtomCrossAttEncoder *)

c_positions == 3

\* t.clone(): the same data in a fresh storage
Clone(h, t) == [heap |-> Alloc(h, h[t.st]), out |-> [t EXCEPT !.st = NewStorage(h)]]

\* act *= mask[..., None], in place: each element times the mask entry of its
\* position over the leading axes
MulMaskLastAxis(h, act, mask) ==
    LET C == act.shape[Len(act.shape)]
        m == h[mask.st]
    IN  [h EXCEPT ![act.st] =
            [k \in 1..Len(h[act.st]) |->
                MaskMul(h[act.st][k], m[((k - 1) \div C) + 1], act.dtype)]]

\* _per_atom_conditioning(batch)[0]: the sum of the learned embeddings of the
\* reference features (learned.ref_embedding stands for that sum), times
\* batch.ref_structure.mask
PerAtomConditioning(h, b, lrn) ==
    LET act == Clone(h, lrn.ref_embedding)
    IN  [heap |-> MulMaskLastAxis(act.heap, act.out, b.ref_structure.mask),
         out |-> act.out]

\* queries_ref_space_uid[:, :, None] == keys_ref_space_uid[:, None, :]
OffsetsValid(h, q_uid, k_uid) ==
    LET S == q_uid.shape[1]
        Q == q_uid.shape[2]
        K == k_uid.shape[2]
    IN  [heap |-> Alloc(h, [n \in 1..(S * Q * K) |->
                     LET s == (n - 1) \div (Q * K)
                         q == ((n - 1) \div K) % Q
                         k == (n - 1) % K
                     IN  IF h[q_uid.st][s * Q + q + 1] = h[k_uid.st][s * K + k + 1]
                         THEN 1 ELSE 0]),
         out |-> [shape |-> <<S, Q, K>>, dtype |-> "bool", st |-> NewStorage(h)]]

\* self.atom_transformer_encoder(queries_act=..., ...): a tensor of the shape of
\* queries_act; its values are the collaborator's
DiffusionCrossAttTransformer(h, queries_act, lrn) ==
    [heap |-> Alloc(h, [k \in 1..Prod(queries_act.shape) |-> lrn.transformer_bias + k]),
     out |-> [queries_act EXCEPT !.st = NewStorage(h)]]

\* the sum of x[k] for k in lo..hi
RECURSIVE SumRange(_, _, _)
SumRange(x, lo, hi) == IF lo > hi THEN 0 ELSE x[lo] + SumRange(x, lo + 1, hi)

\* nn.Linear(in_features, out_features, bias=False) applied to x, every weight
\* being `weight`: a fresh tensor whose last axis has out_features entries
Linear(h, x, weight, out_features) ==
    LET in_features == x.shape[Len(x.shape)]
        rows == Len(h[x.st]) \div in_features
    IN  [heap |-> Alloc(h, [k \in 1..(rows * out_features) |->
                     LET row == (k - 1) \div out_features
                     IN  weight * SumRange(h[x.st], row * in_features + 1,
                                           (row + 1) * in_features)]),
         out |-> [x EXCEPT !.shape = SubSeq(x.shape, 1, Len(x.shape) - 1)
                                     \o <<out_features>>,
                           !.st = NewStorage(h)]]

\* the shape of utils.mask_mean(mask, value, dim=-2): the atom axis is reduced
MaskMeanShape(value_shape) ==
    SubSeq(value_shape, 1, Len(value_shape) - 2) \o <<value_shape[Len(value_shape)]>>

\* a tensor whose values the model does not follow
Opaque(shape) == [shape |-> shape, dtype |-> "float32", st |-> 0]

NoOutput ==
    [token_act |-> NoTensor, skip_connection |-> NoTensor, queries_mask |-> NoTensor,
     queries_single_cond |-> NoTensor, keys_mask |-> NoTensor,
     keys_single_cond |-> NoTensor, pair_cond |-> NoTensor]
\* forward's frame: self, the arguments, the heap, the exception raised so far
\* ("" for none) and the local tensors by name
Frame(self, h, b, lrn, args) ==
    [self |-> self, b |-> b, lrn |-> lrn, args |-> args, heap |-> h, exc |-> "",
     t |-> << >>, out |-> NoOutput]
\* the statement Stmt run on frame f, unless an exception is already pending
Then(f, Stmt(_)) ==
    CHOOSE g \in {IF x.exc # "" THEN x ELSE Stmt(x) : x \in {f}} : TRUE
Throw(f, e) == [f EXCEPT !.exc = e]
\* name = <the tensor r.out>, r being [heap, out] or [exc, heap, out]
Assign(f, name, r) == [f EXCEPT !.heap = r.heap, !.t = (name :> r.out) @@ @]
\* name = <a tensor that needs no new storage>
Bind(f, name, tensor) == [f EXCEPT !.t = (name :> tensor) @@ @]
\* name = atom_layout.convert(gather_info, arr, layout_axes=axes)
AssignConvert(f, name, gi, a, axes) ==
    CHOOSE g \in {IF c.exc # "" THEN [f EXCEPT !.heap = c.heap, !.exc = c.exc]
                  ELSE Assign(f, name, c) : c \in {Convert(f.heap, gi, a, axes)}} : TRUE

\* lines 157-159
Asserts(f) ==
    IF \/ (f.args.token_atoms_act # NoTensor) # f.self.with_token_atoms_act
       \/ (f.args.trunk_single_cond # NoTensor) # f.self.with_trunk_single_cond
       \/ (f.args.trunk_pair_cond # NoTensor) # f.self.with_trunk_pair_cond
    THEN Throw(f, "AssertionError") ELSE f
\* lines 161-162
TokenAtomsSingleCond(f) ==
    Bind(Assign(f, "token_atoms_single_cond", PerAtomConditioning(f.heap, f.b, f.lrn)),
         "token_atoms_mask", f.b.predicted_structure_info.atom_mask)
\* lines 164-168
QueriesSingleCond(f) ==
    AssignConvert(f, "queries_single_cond", f.b.atom_cross_att.token_atoms_to_queries,
                  f.t["token_atoms_single_cond"], <<-3, -2>>)
\* lines 170-174
QueriesMask(f) ==
    AssignConvert(f, "queries_mask", f.b.atom_cross_att.token_atoms_to_queries,
                  f.t["token_atoms_mask"], <<-2, -1>>)
\* lines 176-179
QueriesAct(f) ==
    IF f.args.token_atoms_act = NoTensor
    THEN Assign(f, "queries_act", Clone(f.heap, f.t["queries_single_cond"]))
    ELSE Throw(f, "NotImplementedError")
\* lines 181-185
KeysSingleCond(f) ==
    AssignConvert(f, "keys_single_cond", f.b.atom_cross_att.queries_to_keys,
                  f.t["queries_single_cond"], <<-3, -2>>)
\* lines 186-189
KeysMask(f) ==
    AssignConvert(f, "keys_mask", f.b.atom_cross_att.queries_to_keys,
                  f.t["queries_mask"], <<-2, -1>>)
\* lines 193-203: pair_act's values are learned; its shape is that of
\* row_act[:, :, None, :] + col_act[:, None, :, :]
PairCondKeysInput(f) ==
    AssignConvert(f, "pair_cond_keys_input", f.b.atom_cross_att.queries_to_keys,
                  f.t["queries_single_cond"], <<-3, -2>>)
PairAct(f) ==
    Bind(f, "pair_act",
         Opaque(SubSeq(f.t["queries_single_cond"].shape, 1, 2)
                \o <<f.t["pair_cond_keys_input"].shape[2], 1>>))
\* lines 205-206
TrunkPairCond(f) ==
    IF f.args.trunk_pair_cond # NoTensor THEN Throw(f, "NotImplementedError") ELSE f
\* lines 209-213
QueriesRefPos(f) ==
    AssignConvert(f, "queries_ref_pos", f.b.atom_cross_att.token_atoms_to_queries,
                  f.b.ref_structure.positions, <<-3, -2>>)
\* lines 214-218
QueriesRefSpaceUid(f) ==
    AssignConvert(f, "queries_ref_space_uid", f.b.atom_cross_att.token_atoms_to_queries,
                  f.b.ref_structure.ref_space_uid, <<-2, -1>>)
\* lines 219-223
KeysRefPos(f) ==
    AssignConvert(f, "keys_ref_pos", f.b.atom_cross_att.queries_to_keys,
                  f.t["queries_ref_pos"], <<-3, -2>>)
\* lines 224-228
KeysRefSpaceUid(f) ==
    AssignConvert(f, "keys_ref_space_uid", f.b.atom_cross_att.queries_to_keys,
                  f.b.ref_structure.ref_space_uid, <<-2, -1>>)
\* lines 230-232
AssignOffsetsValid(f) ==
    Assign(f, "offsets_valid",
           OffsetsValid(f.heap, f.t["queries_ref_space_uid"], f.t["keys_ref_space_uid"]))
\* lines 251-259
Transformer(f) ==
    Assign(f, "queries_act", DiffusionCrossAttTransformer(f.heap, f.t["queries_act"], f.lrn))
\* (mutant of SkipConnection: the clone is taken before the mask is applied)
SkipConnectionBeforeMask(f) ==
    CHOOSE g \in {[c EXCEPT !.heap = MulMaskLastAxis(c.heap, c.t["queries_act"],
                                                     c.t["queries_mask"])] :
                     c \in {Assign(f, "skip_connection",
                                   Clone(f.heap, f.t["queries_act"]))}} : TRUE
\* lines 261-262
SkipConnection(f) ==
    Assign(f, "skip_connection",
           Clone(MulMaskLastAxis(f.heap, f.t["queries_act"], f.t["queries_mask"]),
                 f.t["queries_act"]))
\* line 264
Project(f) ==
    Assign(f, "queries_act", Linear(f.heap, f.t["queries_act"], f.lrn.project_weight,
                  f.self.per_token_channels))
\* lines 266-270
TokenAtomsAct(f) ==
    AssignConvert(f, "token_atoms_act", f.b.atom_cross_att.queries_to_token_atoms,
                  f.t["queries_act"], <<-3, -2>>)
\* lines 272-284
ReturnOutput(f) ==
    [f EXCEPT !.out =
        [token_act |-> Opaque(MaskMeanShape(f.t["token_atoms_act"].shape)),
         skip_connection |-> f.t["skip_connection"],
         queries_mask |-> f.t["queries_mask"],
         queries_single_cond |-> f.t["queries_single_cond"],
         keys_mask |-> f.t["keys_mask"],
         keys_single_cond |-> f.t["keys_single_cond"],
         pair_cond |-> f.t["pair_act"]]]

\* AtomCrossAttEncoder.forward(batch, token_atoms_act, trunk_single_cond,
\* trunk_pair_cond): the final frame
Forward(self, h0, b, lrn, args) ==
    LET f01 == Then(Frame(self, h0, b, lrn, args), Asserts)
        f02 == Then(f01, TokenAtomsSingleCond)
        f03 == Then(f02, QueriesSingleCond)
        f04 == Then(f03, QueriesMask)
        f05 == Then(f04, QueriesAct)
        f06 == Then(f05, KeysSingleCond)
        f07 == Then(f06, KeysMask)
        f08 == Then(f07, PairCondKeysInput)
        f09 == Then(f08, PairAct)
        f10 == Then(f09, TrunkPairCond)
        f11 == Then(f10, QueriesRefPos)
        f12 == Then(f11, QueriesRefSpaceUid)
        f13 == Then(f12, KeysRefPos)
        f14 == Then(f13, KeysRefSpaceUid)
        f15 == Then(f14, AssignOffsetsValid)
        f16 == Then(f15, Transformer)
        f17 == Then(f16, SkipConnection)
        f18 == Then(f17, Project)
        f19 == Then(f18, TokenAtomsAct)
    IN  Then(f19, ReturnOutput)

\* offsets_valid as forward computed it (a local of forward)
LocalOf(f, name) == IF name \in DOMAIN f.t THEN f.t[name] ELSE NoTensor

NoERet == [exc |-> "", out |-> NoOutput, offsets_valid |-> NoTensor]
EncoderIdle ==
    /\ encoder = [per_token_channels |-> 0, per_atom_channels |-> 0,
                  with_token_atoms_act |-> FALSE, with_trunk_single_cond |-> FALSE,
                  with_trunk_pair_cond |-> FALSE]
    /\ learned = [ref_embedding |-> NoTensor, transformer_bias |-> 0, project_weight |-> 0]
    /\ batch = << >> /\ eargs = << >> /\ eheap = << >>
    /\ eret = NoERet /\ epc = "idle"

---------------------------------------------------------------------------
(* Attention modules: AttentionPairBias and MSAAttention *)

\* the factor of the mask bias, 1e9
MaskBiasScale == 1000000000

\* tensors whose values are learned are followed as terms: the input x, and an
\* operation applied to a term
TermX == <<"x">>
LayerNorm(term) == <<"layer_norm">> \o term
NoTerm == << >>

\* AttentionPairBias(c_single, num_head, use_single_cond): the submodules that
\* __init__ sets
NewAttentionPairBias(use_single_cond) ==
    [kind |-> "AttentionPairBias",
     use_single_cond |-> use_single_cond,
     modules |-> (IF use_single_cond = FALSE THEN {"layer_norm"} ELSE {})
                 \cup {"q_projection", "k_projection", "v_projection", "gating_query",
                       "transition2"}]

\* (1e9 * (mask - 1.0)): per key position, 0 where the mask is 1
PairBiasMaskBias(mask) == [k \in 1..Len(mask) |-> MaskBiasScale * (mask[k] - 1)]

NoARet == [exc |-> "", bias |-> << >>, qkv_input |-> NoTerm, gate_input |-> NoTerm,
           logits |-> << >>]

\* AttentionPairBias.forward(x, mask, pair_logits): self.layer_norm is looked up
\* whatever use_single_cond is
PairBiasForward(self, x, mask, pair_logits) ==
    LET bias == PairBiasMaskBias(mask)
    IN  IF "layer_norm" \notin self.modules
        THEN [NoARet EXCEPT !.exc = "AttributeError", !.bias = bias]
        ELSE [exc |-> "",
              bias |-> bias,
              qkv_input |-> LayerNorm(x),
              gate_input |-> LayerNorm(x),
              logits |-> << >>]

NewMSAAttention(num_head) ==
    [kind |-> "MSAAttention", num_head |-> num_head,
     modules |-> {"act_norm", "pair_norm", "pair_logits", "v_projection", "gating_query",
                  "output_projection"}]

\* (mutant of MaxOverRows: the minimum over the rows)
MinOverRows(msa_mask, k) ==
    CHOOSE v \in {msa_mask[r][k] : r \in 1..Len(msa_mask)} :
        \A r \in 1..Len(msa_mask) : msa_mask[r][k] >= v

\* torch.max(msa_mask, dim=0).values[k]
MaxOverRows(msa_mask, k) ==
    CHOOSE v \in {msa_mask[r][k] : r \in 1..Len(msa_mask)} :
        \A r \in 1..Len(msa_mask) : msa_mask[r][k] <= v

\* 1e9 * (torch.max(msa_mask, dim=0).values - 1.0)
MSAMaskBias(msa_mask) ==
    [k \in 1..Len(msa_mask[1]) |-> MaskBiasScale * (MaxOverRows(msa_mask, k) - 1)]

\* logits += bias for logits of shape (H, N, N) (row-major) and bias of shape
\* (N,): the bias runs along the last axis
AddAlongLastAxis(logits, bias) ==
    [n \in 1..Len(logits) |-> logits[n] + bias[((n - 1) % Len(bias)) + 1]]

\* MSAAttention.forward(msa, msa_mask, pair): pair_logits holds what
\* self.pair_logits(self.pair_norm(pair)).permute(2, 0, 1) evaluates to
MSAForward(self, msa_mask, pair_logits) ==
    LET bias == MSAMaskBias(msa_mask)
    IN  [exc |-> "",
         bias |-> bias,
         qkv_input |-> LayerNorm(TermX),
         gate_input |-> LayerNorm(TermX),
         logits |-> AddAlongLastAxis(pair_logits, bias)]

AttentionIdle ==
    /\ attn = [kind |-> "none"] /\ ain = << >> /\ aret = NoARet /\ apc = "idle"

---------------------------------------------------------------------------
(* Inputs *)

Dims == 1..MaxDim
SeqsUpTo(S, n) == UNION {[1..k -> S] : k \in 1..n}

Ramp(n) == [i \in 1..n |-> i]
FloatData(n) ==
    {Ramp(n), [Ramp(n) EXCEPT ![n] = NaN], [Ramp(n) EXCEPT ![1] = PosInf]}
DataOf(dtype, n) ==
    IF dtype = "float32" THEN FloatData(n)
    ELSE IF dtype = "int64" THEN {Ramp(n)}
    ELSE {[i \in 1..n |-> i % 2]}
DTypes == {"float32", "int64", "bool"}

ArrShapes ==
    {s \in SeqsUpTo(Dims, 3) : Prod(s) <= MaxDim + 2}
        \cup {Ones(MaxBatchAxes + 1) \o <<d>> : d \in Dims}
AxesChoices == {<<0>>, <<1>>, <<-1>>, <<0, 1>>, <<-2, -1>>, <<1, 2>>}
InputShapes == SeqsUpTo(Dims, 2)
IdxShapes == {s \in SeqsUpTo(1..MaxGather, 2) : Prod(s) <= MaxGather}
IdxVals == {-1, 0, 1, 2}

\* storages of a call: 1 arr, 2 gather_idxs, 3 gather_mask, 4 input_shape
MkHeap(data, idxs, mask, ishape) == <<data, idxs, mask, ishape>>
MkArr(shape, dtype) == [shape |-> shape, dtype |-> dtype, st |-> 1]
MkGatherInfo(idx_shape, ishape) ==
    [gather_idxs |-> [shape |-> idx_shape, dtype |-> "int64", st |-> 2],
     gather_mask |-> [shape |-> idx_shape, dtype |-> "bool", st |-> 3],
     input_shape |-> [shape |-> <<Len(ishape)>>, dtype |-> "int64", st |-> 4]]

NoRet == [exc |-> "", out |-> NoTensor]

\* AtomLayout variables before any AtomLayout operation
NoLRet == [exc |-> "", obj |-> NoLayout, eq |-> FALSE, arg |-> << >>]
NoPadded == [exc |-> "", obj |-> NoLayout, shape |-> << >>]
LayoutIdle ==
    /\ layout = NoLayout /\ other = NoLayout /\ padded = NoPadded
    /\ stacked = NoStack /\ lret = NoLRet /\ lpc = "idle"

\* Whether a call with these shapes gets past convert's checks on layout_axes
\* and shapes; only then do the gather indices and the mask matter.
ShapesAccepted(shape, axes, ishape) ==
    Convert(MkHeap(Ramp(Prod(shape)), <<0>>, <<1>>, ishape),
            MkGatherInfo(<<1>>, ishape), MkArr(shape, "int64"), axes).exc = ""

IdxShapesFor(ishape) ==
    {<<g>> : g \in 1..MaxGather} \cup {s \in {ishape} : Prod(s) <= MaxGather}

InitConvert ==
    /\ LayoutIdle /\ EncoderIdle /\ AttentionIdle
    /\ pc = "call"
    /\ ret = NoRet /\ tret = NoRet
    /\ layout_axes \in AxesChoices
    /\ \E shape \in ArrShapes, dtype \in DTypes, ishape \in InputShapes :
         \E idx_shape \in IdxShapesFor(ishape), data \in DataOf(dtype, Prod(shape)) :
           \E idxs \in IF ShapesAccepted(shape, layout_axes, ishape)
                        THEN [1..Prod(idx_shape) -> IdxVals]
                        ELSE {[i \in 1..Prod(idx_shape) |-> 0]},
              mask \in IF ShapesAccepted(shape, layout_axes, ishape)
                        THEN [1..Prod(idx_shape) -> {0, 1}]
                        ELSE {[i \in 1..Prod(idx_shape) |-> 1]} :
             /\ heap = MkHeap(data, idxs, mask, ishape)
             /\ arr = MkArr(shape, dtype)
             /\ gather_info = MkGatherInfo(idx_shape, ishape)

ConvertCall ==
    /\ pc = "call"
    /\ LET r == Convert(heap, gather_info, arr, layout_axes)
       IN  /\ heap' = r.heap
           /\ ret' = [exc |-> r.exc, out |-> r.out]
    /\ pc' = "done"
    /\ UNCHANGED <<arr, gather_info, layout_axes, tret>>
    /\ UNCHANGED <<lvars, evars, avars>>

NextConvert == ConvertCall

SpecConvert == InitConvert /\ [][NextConvert]_vars

\* Inputs that vary the shapes and the layout axes (ranks up to MaxBatchAxes + 2,
\* axes inside and outside the array's rank); the data is a ramp.
ShapeSpecShapes ==
    {Ones(k) \o core : k \in 0..(MaxBatchAxes + 1), core \in SeqsUpTo(Dims, 2)}
ShapeSpecAxes == SeqsUpTo(-2..(MaxBatchAxes + 1), 2) \cup {<< >>, <<0, 1, 2>>}
ShapeSpecIdxShapes == {s \in SeqsUpTo(1..MaxGather, 2) : Prod(s) <= MaxGather}

InitShapes ==
    /\ LayoutIdle /\ EncoderIdle /\ AttentionIdle
    /\ pc = "call"
    /\ ret = NoRet /\ tret = NoRet
    /\ layout_axes \in ShapeSpecAxes
    /\ \E shape \in ShapeSpecShapes, ishape \in InputShapes :
         \E idx_shape \in IF Len(layout_axes) > 0
                              /\ ShapesAccepted(shape, layout_axes, ishape)
                           THEN ShapeSpecIdxShapes ELSE {<<1>>} :
           /\ heap = MkHeap(Ramp(Prod(shape)),
                            [i \in 1..Prod(idx_shape) |-> 0],
                            [i \in 1..Prod(idx_shape) |-> 1], ishape)
           /\ arr = MkArr(shape, "int64")
           /\ gather_info = MkGatherInfo(idx_shape, ishape)

SpecShapes == InitShapes /\ [][NextConvert]_vars

\* a[:, ..., :n, ...] with the slice at axis position `axis` (0-based), as a
\* tensor of its own
Truncate(h, a, axis, n) ==
    LET L == a.shape[axis + 1]
        F == Prod(SubSeq(a.shape, axis + 2, Len(a.shape)))
        B == Prod(SubSeq(a.shape, 1, axis))
        m == Min2(n, L)
    IN  [heap |-> Alloc(h, [k \in 1..(B * m * F) |->
                     h[a.st][((k - 1) \div (m * F)) * L * F + ((k - 1) % (m * F)) + 1]]),
         out |-> [a EXCEPT !.shape = [a.shape EXCEPT ![axis + 1] = m],
                           !.st = NewStorage(h)]]

\* Calls whose array has the layout axes the gather info expects, the first of
\* them possibly larger: layout_axes consecutive and inside the rank, as many
\* as input_shape has entries, later axes of equal size.
FirstAxisMayBeLarger(shape, axes, ishape) ==
    LET la == NormAxes(axes, Len(shape))
    IN  /\ la = Range(la[1], la[Len(la)] + 1)
        /\ 0 <= la[1] /\ la[Len(la)] < Len(shape)
        /\ Len(la) = Len(ishape)
        /\ shape[la[1] + 1] >= ishape[1]
        /\ \A i \in 2..Len(la) : shape[la[i] + 1] = ishape[i]

InitTruncate ==
    /\ LayoutIdle /\ EncoderIdle /\ AttentionIdle
    /\ pc = "call"
    /\ ret = NoRet /\ tret = NoRet
    /\ layout_axes \in AxesChoices
    /\ \E shape \in ArrShapes, ishape \in InputShapes :
         /\ FirstAxisMayBeLarger(shape, layout_axes, ishape)
         /\ \E idx_shape \in IdxShapesFor(ishape) :
              \E idxs \in [1..Prod(idx_shape) -> IdxVals],
                 mask \in [1..Prod(idx_shape) -> {0, 1}] :
                /\ heap = MkHeap(Ramp(Prod(shape)), idxs, mask, ishape)
                /\ arr = MkArr(shape, "int64")
                /\ gather_info = MkGatherInfo(idx_shape, ishape)

\* convert(gather_info, arr[..., :input_shape[0], ...], layout_axes), the slice
\* taken at the first layout axis
TruncatedConvertCall ==
    /\ pc = "done"
    /\ Len(layout_axes) > 0
    /\ NormAxes(layout_axes, Len(arr.shape))[1] \in 0..(Len(arr.shape) - 1)
    /\ \E a \in {Truncate(heap, arr, NormAxes(layout_axes, Len(arr.shape))[1],
                          heap[gather_info.input_shape.st][1])} :
         \E r \in {Convert(a.heap, gather_info, a.out, layout_axes)} :
            /\ heap' = r.heap
            /\ tret' = [exc |-> r.exc, out |-> r.out]
    /\ pc' = "compared"
    /\ UNCHANGED <<arr, gather_info, layout_axes, ret>>
    /\ UNCHANGED <<lvars, evars, avars>>

NextTruncate ==
    \/ ConvertCall
    \/ TruncatedConvertCall

SpecTruncate == InitTruncate /\ [][NextTruncate]_vars

---------------------------------------------------------------------------
(* AtomLayout: inputs and operations *)

Digits == <<"1", "2", "3", "4", "5", "6", "7", "8", "9">>
LayoutShapes == {s \in SeqsUpTo(1..MaxSlots, 2) : Prod(s) <= MaxSlots}
NameVals == {PyStr(""), PyNone, PyStr("CA")}
Alternate(n, a, b) == [i \in 1..n |-> IF i % 2 = 1 THEN a ELSE b]

\* Layouts with every combination of valid and padding slots (padding as '' or
\* None), slot-unique residue ids, and each optional field present or None.
Layouts ==
    {[atom_name |-> NdArray(shape, "object", names),
      res_id |-> NdArray(shape, "int64", [i \in 1..Prod(shape) |-> PyInt(Digits[i])]),
      chain_id |-> NdArray(shape, "object",
                           Alternate(Prod(shape), PyStr("A"), PyStr("B"))),
      atom_element |-> IF 1 \in opt
                       THEN NdArray(shape, "object",
                                    Alternate(Prod(shape), PyStr("C"), PyStr("N")))
                       ELSE NoArray,
      res_name |-> IF 2 \in opt
                   THEN NdArray(shape, "object", [i \in 1..Prod(shape) |-> PyStr("ALA")])
                   ELSE NoArray,
      chain_type |-> IF 3 \in opt
                     THEN NdArray(shape, "object",
                                  [i \in 1..Prod(shape) |-> PyStr("polypeptide(L)")])
                     ELSE NoArray] :
        shape \in LayoutShapes, opt \in SUBSET {1, 2, 3},
        names \in UNION {[1..Prod(sh) -> NameVals] : sh \in LayoutShapes}}

WellShaped(l) == Len(l.atom_name.data) = Prod(l.atom_name.shape)

\* values an edit may write into a slot of a field
EditVals(field) ==
    IF field = "atom_name" THEN NameVals \cup {PyStr("N")}
    ELSE IF field = "res_id" THEN {PyInt("0"), PyInt("7")}
    ELSE {PyStr(""), PyStr("X")}

\* l with one slot of one field rewritten, or with one optional field set to None
Edit1(l) ==
    {l} \cup {[l EXCEPT ![f] = NoArray] : f \in OptionalFields}
        \cup UNION {
               {[l EXCEPT ![f].data[i] = v] :
                    i \in 1..Len(l[f].data), v \in EditVals(f)} :
               f \in {FieldOrder[j] : j \in 1..6}}
\* l with up to two such edits: the right operands of ==
Others(l) == UNION {Edit1(m) : m \in Edit1(l)}

TargetShapes == SeqsUpTo(1..(MaxSlots + 1), 2)

\* the key (slice(0, n_1), slice(0, n_2), ...)
PrefixKey(stops) == [i \in 1..Len(stops) |-> <<0, stops[i]>>]

ConvertIdle ==
    /\ heap = << >> /\ arr = NoTensor /\ layout_axes = << >> /\ ret = NoRet
    /\ tret = NoRet
    /\ gather_info = MkGatherInfo(<<1>>, <<1>>)
    /\ pc = "idle"

InitLayout ==
    /\ ConvertIdle /\ EncoderIdle /\ AttentionIdle
    /\ layout \in {l \in Layouts : WellShaped(l)}
    /\ other = NoLayout /\ padded = NoPadded /\ stacked = NoStack /\ lret = NoLRet
    /\ lpc = "init"

CopyAndPadToCall ==
    /\ lpc = "init"
    /\ \E shape \in TargetShapes :
         LET r == CopyAndPadTo(layout, shape)
         IN  padded' = [exc |-> r.exc, obj |-> r.obj, shape |-> shape]
    /\ lpc' = "padded"
    /\ UNCHANGED <<layout, other, stacked, lret>>
    /\ UNCHANGED <<cvars, evars, avars>>

GetItemCall ==
    /\ lpc = "padded"
    /\ padded.exc = ""
    /\ \E stops \in [1..Len(ShapeOf(padded.obj)) -> 1..(MaxSlots + 1)] :
         /\ \A i \in 1..Len(stops) : stops[i] <= ShapeOf(padded.obj)[i]
         /\ LET r == GetItem(padded.obj, PrefixKey(stops))
            IN  lret' = [exc |-> r.exc, obj |-> r.obj, eq |-> FALSE, arg |-> stops]
    /\ lpc' = "sliced"
    /\ UNCHANGED <<layout, other, padded, stacked>>
    /\ UNCHANGED <<cvars, evars, avars>>

ToArrayCall ==
    /\ lpc = "init"
    /\ stacked' = ToArray(layout)
    /\ lpc' = "stacked"
    /\ UNCHANGED <<layout, other, padded, lret>>
    /\ UNCHANGED <<cvars, evars, avars>>

\* from_array on the stacked array, or on its first rows only
FromArrayCall ==
    /\ lpc = "stacked"
    /\ stacked.exc = ""
    /\ \E rows \in 5..6 :
         LET a == NpSlice(stacked.arr,
                          PrefixKey(<<rows>> \o Tail(stacked.arr.shape)))
             r == FromArray(a)
         IN  lret' = [exc |-> r.exc, obj |-> r.obj, eq |-> FALSE, arg |-> a.shape]
    /\ lpc' = "restored"
    /\ UNCHANGED <<layout, other, padded, stacked>>
    /\ UNCHANGED <<cvars, evars, avars>>

EqCall ==
    /\ lpc = "init"
    /\ \E o \in Others(layout) :
         /\ other' = o
         /\ lret' = [exc |-> "", obj |-> NoLayout, eq |-> Eq(layout, o), arg |-> << >>]
    /\ lpc' = "compared"
    /\ UNCHANGED <<layout, padded, stacked>>
    /\ UNCHANGED <<cvars, evars, avars>>

\* a with another shape (filled with its first element)
Reshaped(a, shape) == NdArray(shape, a.dtype, [i \in 1..Prod(shape) |-> a.data[1]])
\* the fields of l with at most one present field given another shape, or with
\* atom_name as a fixed-width string array: arguments for the constructor
ConstructorArgs(l) ==
    {l, [l EXCEPT !.atom_name.dtype = "<U2"]}
    \cup {[l EXCEPT ![f] = Reshaped(l[f], sh)] :
             f \in {g \in {FieldOrder[i] : i \in 1..6} : ~IsNone(l[g])},
             sh \in LayoutShapes}

\* AtomLayout(atom_name=..., res_id=..., ...)
NewAtomLayoutCall ==
    /\ lpc = "init"
    /\ \E a \in ConstructorArgs(layout) :
         LET r == NewAtomLayout(a.atom_name, a.res_id, a.chain_id, a.atom_element,
                                a.res_name, a.chain_type)
         IN  lret' = [exc |-> r.exc, obj |-> r.obj, eq |-> FALSE, arg |-> a]
    /\ lpc' = "constructed"
    /\ UNCHANGED <<layout, other, padded, stacked>>
    /\ UNCHANGED <<cvars, evars, avars>>

NextLayout ==
    \/ NewAtomLayoutCall
    \/ CopyAndPadToCall
    \/ GetItemCall
    \/ ToArrayCall
    \/ FromArrayCall
    \/ EqCall

SpecLayout == InitLayout /\ [][NextLayout]_vars

---------------------------------------------------------------------------
(* AtomCrossAttEncoder: inputs and the forward call *)

Tensor(shape, dtype, st) == [shape |-> shape, dtype |-> dtype, st |-> st]
\* a GatherInfo whose three tensors are the storages st, st + 1, st + 2
GatherInfoAt(st, idx_shape, rank) ==
    [gather_idxs |-> Tensor(idx_shape, "int64", st),
     gather_mask |-> Tensor(idx_shape, "bool", st + 1),
     input_shape |-> Tensor(<<rank>>, "int64", st + 2)]

\* a batch of T tokens with D dense atom slots each, S subsets of Q queries and
\* K keys; storages 1..14 of the heap hold its tensors
MkBatch(T, D, S, Q, K) ==
    [ref_structure |->
        [mask |-> Tensor(<<T, D>>, "bool", 2),
         positions |-> Tensor(<<T, D, c_positions>>, "float32", 3),
         ref_space_uid |-> Tensor(<<T, D>>, "int64", 4)],
     predicted_structure_info |-> [atom_mask |-> Tensor(<<T, D>>, "bool", 5)],
     atom_cross_att |->
        [token_atoms_to_queries |-> GatherInfoAt(6, <<S, Q>>, 2),
         queries_to_keys |-> GatherInfoAt(9, <<S, K>>, 2),
         queries_to_token_atoms |-> GatherInfoAt(12, <<T, D>>, 2)]]

\* the channel widths the encoder is constructed with (scaled down)
AtomChannels == {1}
TokenChannels == {2}

AllValid(n) == [i \in 1..n |-> 1]
LastPadded(n) == [i \in 1..n |-> IF i = n THEN 0 ELSE 1]
Wrapped(n, m) == [i \in 1..n |-> (i - 1) % m]
Reversed(n, m) == [i \in 1..n |-> (m - i) % m]

MkEncoderHeap(T, D, S, Q, K, C, atom_mask, uid, t2q_idxs, t2q_mask, q2k_mask) ==
    <<Ramp(T * D * C), atom_mask, [i \in 1..(T * D * c_positions) |-> 0], uid, atom_mask,
      t2q_idxs, t2q_mask, <<T, D>>,
      Wrapped(S * K, S * Q), q2k_mask, <<S, Q>>,
      Wrapped(T * D, S * Q), AllValid(T * D), <<S, Q>>>>

InitEncoder ==
    /\ ConvertIdle /\ LayoutIdle /\ AttentionIdle
    /\ encoder \in [per_token_channels : TokenChannels, per_atom_channels : AtomChannels,
                    with_token_atoms_act : BOOLEAN, with_trunk_single_cond : BOOLEAN,
                    with_trunk_pair_cond : BOOLEAN]
    /\ \E T \in Dims, D \in Dims, S \in Dims, Q \in Dims, K \in Dims :
         /\ batch = MkBatch(T, D, S, Q, K)
         /\ learned = [ref_embedding |-> Tensor(<<T, D, encoder.per_atom_channels>>,
                                                "float32", 1),
                       transformer_bias |-> 1, project_weight |-> 2]
         /\ eargs \in [token_atoms_act : {NoTensor,
                                          Opaque(<<T, D, encoder.per_atom_channels>>)},
                       trunk_single_cond : {NoTensor, Opaque(<<T, 1>>)},
                       trunk_pair_cond : {NoTensor, Opaque(<<T, T, 1>>)}]
         /\ \E atom_mask \in {AllValid(T * D), LastPadded(T * D)},
               uid \in {[i \in 1..(T * D) |-> (i - 1) \div D], [i \in 1..(T * D) |-> 0]},
               t2q_idxs \in {Wrapped(S * Q, T * D), Reversed(S * Q, T * D)},
               t2q_mask \in {AllValid(S * Q), LastPadded(S * Q)},
               q2k_mask \in {AllValid(S * K), LastPadded(S * K)} :
              eheap = MkEncoderHeap(T, D, S, Q, K, encoder.per_atom_channels, atom_mask, uid, t2q_idxs, t2q_mask,
                                    q2k_mask)
    /\ eret = NoERet
    /\ epc = "call"

ForwardCall ==
    /\ epc = "call"
    /\ \E r \in {Forward(encoder, eheap, batch, learned, eargs)} :
         /\ eheap' = r.heap
         /\ eret' = [exc |-> r.exc, out |-> r.out,
                     offsets_valid |-> LocalOf(r, "offsets_valid")]
    /\ epc' = "done"
    /\ UNCHANGED <<encoder, learned, batch, eargs>>
    /\ UNCHANGED <<cvars, lvars, avars>>

NextEncoder == ForwardCall

SpecEncoder == InitEncoder /\ [][NextEncoder]_vars

---------------------------------------------------------------------------
(* Attention modules: inputs and the forward calls *)

Heads == 1..2
Masks(n) == [1..n -> {0, 1}]
\* logits of shape (H, N, N) as the learned projection might give them
LearnedLogits(H, N) == [n \in 1..(H * N * N) |-> n]

InitAttention ==
    /\ ConvertIdle /\ LayoutIdle /\ EncoderIdle
    /\ \/ /\ attn \in {NewAttentionPairBias(c) : c \in BOOLEAN}
          /\ \E N \in Dims :
               ain \in [x : {TermX}, mask : Masks(N), pair_logits : BOOLEAN]
       \/ /\ attn \in {NewMSAAttention(h) : h \in Heads}
          /\ \E R \in Dims, N \in Dims :
               ain \in [msa_mask : [1..R -> Masks(N)],
                        pair_logits : {LearnedLogits(attn.num_head, N)}]
    /\ aret = NoARet
    /\ apc = "call"

PairBiasForwardCall ==
    /\ apc = "call" /\ attn.kind = "AttentionPairBias"
    /\ aret' = PairBiasForward(attn, ain.x, ain.mask, ain.pair_logits)
    /\ apc' = "done"
    /\ UNCHANGED <<attn, ain>>
    /\ UNCHANGED <<cvars, lvars, evars>>

MSAForwardCall ==
    /\ apc = "call" /\ attn.kind = "MSAAttention"
    /\ aret' = MSAForward(attn, ain.msa_mask, ain.pair_logits)
    /\ apc' = "done"
    /\ UNCHANGED <<attn, ain>>
    /\ UNCHANGED <<cvars, lvars, evars>>

NextAttention ==
    \/ PairBiasForwardCall
    \/ MSAForwardCall

SpecAttention == InitAttention /\ [][NextAttention]_vars

---------------------------------------------------------------------------
(* Properties of the attention modules *)

\* C12: an AttentionPairBias built with use_single_cond = True completes forward
\* and feeds the caller's x itself to the q/k/v and gate projections; built with
\* use_single_cond = False it feeds them the layer-normalized x.
C12_ConditioningSkipsNorm ==
    (apc = "done" /\ attn.kind = "AttentionPairBias") =>
        /\ aret.exc = ""
        /\ attn.use_single_cond =>
              (aret.qkv_input = ain.x /\ aret.gate_input = ain.x)
        /\ ~attn.use_single_cond =>
              (aret.qkv_input = LayerNorm(ain.x) /\ aret.gate_input = LayerNorm(ain.x))

\* C16: in MSAAttention.forward the mask bias of key position k is 0 when
\* msa_mask[r, k] is valid for some row r and -1e9 when it is invalid in every
\* row, and that bias is what is added to the logits of every head and every
\* query position.
ValidInSomeRow(k) == \E r \in 1..Len(ain.msa_mask) : ain.msa_mask[r][k] = 1
C16_MSAMaskBias ==
    (apc = "done" /\ attn.kind = "MSAAttention") =>
        LET N == Len(ain.msa_mask[1])
        IN  /\ Len(aret.bias) = N
            /\ \A k \in 1..N :
                  aret.bias[k] = IF ValidInSomeRow(k) THEN 0 ELSE -MaskBiasScale
            /\ \A h \in 1..attn.num_head, q \in 1..N, k \in 1..N :
                  LET n == (h - 1) * N * N + (q - 1) * N + k
                  IN  aret.logits[n] - ain.pair_logits[n] = aret.bias[k]
C16_Witness ==
    /\ apc = "done" /\ attn.kind = "MSAAttention" /\ attn.num_head = 2
    /\ Len(ain.msa_mask) = 2 /\ Len(ain.msa_mask[1]) = 2
    /\ ain.msa_mask[1] = <<0, 0>> /\ ain.msa_mask[2] = <<1, 0>>
    /\ aret.bias = <<0, -MaskBiasScale>>

---------------------------------------------------------------------------
(* Properties of AtomCrossAttEncoder *)

ExtensionPaths ==
    {<<"token_atoms_act", "with_token_atoms_act">>,
     <<"trunk_single_cond", "with_trunk_single_cond">>,
     <<"trunk_pair_cond", "with_trunk_pair_cond">>}
Provided(name) == eargs[name] # NoTensor
\* every optional input is provided exactly when its flag is set
InputsMatchFlags == \A p \in ExtensionPaths : Provided(p[1]) = encoder[p[2]]

\* C6: forward raises NotImplementedError, and returns no output, whenever one
\* of token_atoms_act, trunk_single_cond, trunk_pair_cond is provided to an
\* encoder whose flag for it is set; it returns an output only when all three
\* are absent.
C6_ExtensionPathsRaise ==
    (epc = "done" /\ InputsMatchFlags) =>
        /\ \A p \in ExtensionPaths :
              (Provided(p[1]) /\ encoder[p[2]]) =>
                  (eret.exc = "NotImplementedError" /\ eret.out = NoOutput)
        /\ eret.exc = "" => \A p \in ExtensionPaths : ~Provided(p[1])

\* the tensors of the batch, read from the heap (0-based flat positions)
AtomUid(a) == eheap[batch.ref_structure.ref_space_uid.st][a + 1]
T2QIdx(i) == eheap[batch.atom_cross_att.token_atoms_to_queries.gather_idxs.st][i + 1]
T2QMask(i) == eheap[batch.atom_cross_att.token_atoms_to_queries.gather_mask.st][i + 1]
Q2KIdx(j) == eheap[batch.atom_cross_att.queries_to_keys.gather_idxs.st][j + 1]
Q2KMask(j) == eheap[batch.atom_cross_att.queries_to_keys.gather_mask.st][j + 1]
NumSubsets == batch.atom_cross_att.token_atoms_to_queries.gather_idxs.shape[1]
NumQueries == batch.atom_cross_att.token_atoms_to_queries.gather_idxs.shape[2]
NumKeys == batch.atom_cross_att.queries_to_keys.gather_idxs.shape[2]

\* C13: offsets_valid[s, q, k] is true exactly when the atom that
\* token_atoms_to_queries places at query slot (s, q) and the atom of the query
\* that queries_to_keys places at key slot (s, k) have the same ref_space_uid,
\* for every pair of gather maps (slots that the maps fill).
C13_OffsetsValidSameUid ==
    (epc = "done" /\ eret.exc = "") =>
        \A s \in 0..(NumSubsets - 1), q \in 0..(NumQueries - 1), k \in 0..(NumKeys - 1) :
            LET query == s * NumQueries + q
                key == s * NumKeys + k
                selected == Q2KIdx(key)
            IN  (T2QMask(query) = 1 /\ Q2KMask(key) = 1 /\ T2QMask(selected) = 1) =>
                    ((eheap[eret.offsets_valid.st][(s * NumQueries + q) * NumKeys + k + 1] = 1)
                        <=> (AtomUid(T2QIdx(query)) = AtomUid(T2QIdx(selected))))

AtomMask(a) == eheap[batch.predicted_structure_info.atom_mask.st][a + 1]
QueriesMaskAt(i) == eheap[eret.out.queries_mask.st][i + 1]
\* what the transformer returned at flat position n (0-based)
TransformerOutputAt(n) == learned.transformer_bias + n + 1

\* C15: the skip connection returned by forward is the transformer output times
\* queries_mask, taken before the projection: zero at every query slot whose
\* queries_mask is false, the transformer output at every other slot, of the
\* per-atom channel width, and still so when forward returns after the
\* projection, the layout conversion and the aggregation; queries_mask is true
\* exactly at the slots whose gather_mask is true and whose source atom_mask is
\* true.
C15_SkipConnectionSnapshot ==
    (epc = "done" /\ eret.exc = "") =>
        LET C == encoder.per_atom_channels
            skip == eret.out.skip_connection
        IN  /\ skip.shape = <<NumSubsets, NumQueries, C>>
            /\ Len(eheap[skip.st]) = NumSubsets * NumQueries * C
            /\ \A i \in 0..(NumSubsets * NumQueries - 1) :
                  /\ QueriesMaskAt(i) \in {0, 1}
                  /\ QueriesMaskAt(i) = 1 <=>
                        (T2QMask(i) = 1 /\ AtomMask(T2QIdx(i)) = 1)
                  /\ \A c \in 0..(C - 1) :
                        eheap[skip.st][i * C + c + 1] =
                            IF QueriesMaskAt(i) = 1 THEN TransformerOutputAt(i * C + c)
                            ELSE 0
C15_Witness ==
    /\ epc = "done" /\ eret.exc = ""
    /\ encoder.per_token_channels # encoder.per_atom_channels
    /\ \E i, j, l \in 0..(NumSubsets * NumQueries - 1) :
          /\ T2QMask(i) = 0 /\ eheap[eret.out.skip_connection.st][i + 1] = 0
          /\ T2QMask(j) = 1 /\ AtomMask(T2QIdx(j)) = 0 /\ T2QIdx(j) # j
          /\ eheap[eret.out.skip_connection.st][j + 1] = 0
          /\ QueriesMaskAt(l) = 1
          /\ eheap[eret.out.skip_connection.st][l + 1] = TransformerOutputAt(l)

---------------------------------------------------------------------------
(* Properties of AtomLayout *)

Fields == {FieldOrder[i] : i \in 1..6}
Slots(l) == 1..Len(l.atom_name.data)
ValidSlot(l, i) == Truthy(l.atom_name.data[i])
\* field f holds the same value in slot i of a and b (absent in both counts)
SameAt(a, b, f, i) ==
    \/ IsNone(a[f]) /\ IsNone(b[f])
    \/ ~IsNone(a[f]) /\ ~IsNone(b[f]) /\ a[f].data[i] = b[f].data[i]
\* a and b have one shape and agree, in every field, on every slot that is
\* valid in either
AgreeOnValidSlots(a, b) ==
    /\ ShapeOf(a) = ShapeOf(b)
    /\ \A i \in Slots(a) :
         (ValidSlot(a, i) \/ ValidSlot(b, i)) =>
             \A f \in Fields : SameAt(a, b, f, i)

\* C7: two layouts of one shape that agree on every valid slot in every field
\* compare equal, whatever their padding slots hold ('' or None as the padding
\* atom_name included).
C7_EqIgnoresPadding ==
    (lpc = "compared" /\ AgreeOnValidSlots(layout, other)) => lret.eq

\* C8: copy_and_pad_to to a shape of the same rank, no smaller on any axis,
\* succeeds and fills every slot outside the original extent with atom_name ''
\* and res_id 0; slicing the result back to the original shape gives a layout
\* whose every field is exactly the original's (absent fields stay absent).
OutsideExtent(k, shape, old_shape) ==
    \E i \in 1..Len(shape) : Unravel(k - 1, shape)[i] >= old_shape[i]
Grows(old_shape, shape) ==
    /\ Len(shape) = Len(old_shape)
    /\ \A i \in 1..Len(shape) : shape[i] >= old_shape[i]
C8_PadRoundTrip ==
    /\ (lpc \in {"padded", "sliced"} /\ Grows(ShapeOf(layout), padded.shape)) =>
          /\ padded.exc = ""
          /\ ShapeOf(padded.obj) = padded.shape
          /\ \A k \in 1..Prod(padded.shape) :
                OutsideExtent(k, padded.shape, ShapeOf(layout)) =>
                    /\ padded.obj.atom_name.data[k] = PyStr("")
                    /\ padded.obj.res_id.data[k] = PyInt("0")
    /\ (lpc = "sliced" /\ lret.arg = ShapeOf(layout)) =>
          /\ lret.exc = ""
          /\ lret.obj = layout
C8_Witness ==
    /\ lpc = "sliced" /\ lret.arg = ShapeOf(layout)
    /\ padded.shape # ShapeOf(layout)
    /\ \E i \in Slots(layout) : layout.atom_name.data[i] = PyNone
    /\ \E i \in Slots(layout) : ValidSlot(layout, i)
    /\ IsNone(layout.res_name) /\ ~IsNone(layout.atom_element)
    /\ lret.obj = layout

\* C9: to_array raises exactly when an optional field is absent; from_array
\* raises when the first axis is not 6; and from_array(L.to_array()) holds in
\* each field the values L holds there, so it compares equal to L.
FullyPopulated(l) == \A f \in OptionalFields : ~IsNone(l[f])
C9_StackRoundTrip ==
    /\ lpc \in {"stacked", "restored"} =>
          ((stacked.exc # "") <=> ~FullyPopulated(layout))
    /\ (lpc = "restored" /\ lret.arg[1] # 6) => lret.exc # ""
    /\ (lpc = "restored" /\ lret.arg[1] = 6) =>
          /\ lret.exc = ""
          /\ \A f \in Fields :
                /\ lret.obj[f].shape = layout[f].shape
                /\ lret.obj[f].data = layout[f].data
          /\ Eq(lret.obj, layout)
          /\ Eq(layout, lret.obj)
C9_Witness ==
    /\ lpc = "restored" /\ lret.arg[1] = 6
    /\ Len(ShapeOf(layout)) = 2
    /\ \E i \in Slots(layout) : ValidSlot(layout, i)
    /\ \E i \in Slots(layout) : ~ValidSlot(layout, i)
    /\ Eq(lret.obj, layout)

\* C11: constructing an AtomLayout fails with a shape error when some present
\* field has not the shape of atom_name, and succeeds when all present fields
\* share one shape and atom_name has dtype object; so every AtomLayout there is
\* (constructed, indexed, padded, read from an array) has all present fields of
\* one shape.
SameShapes(l) == \A f \in Fields : IsNone(l[f]) \/ l[f].shape = l.atom_name.shape
C11_ShapeInvariant ==
    /\ lpc = "constructed" =>
          /\ ~SameShapes(lret.arg) => (lret.exc = "ShapeError" /\ lret.obj = NoLayout)
          /\ (SameShapes(lret.arg) /\ lret.arg.atom_name.dtype = "object") =>
                (lret.exc = "" /\ lret.obj = lret.arg)
    /\ lpc # "idle" => SameShapes(layout)
    /\ (lpc \in {"padded", "sliced"} /\ padded.exc = "") => SameShapes(padded.obj)
    /\ (lpc \in {"constructed", "sliced", "restored"} /\ lret.exc = "") =>
          SameShapes(lret.obj)
C11_Witness ==
    /\ lpc = "constructed"
    /\ lret.exc = "ShapeError"
    /\ lret.arg.res_name.shape = <<1, 2>> /\ lret.arg.atom_name.shape = <<2>>
    /\ IsNone(lret.arg.chain_type)

\* C10: row i of to_array is the i-th field in the order (atom_name,
\* atom_element, res_name, res_id, chain_id, chain_type), and from_array reads
\* the rows in that order.
C10_RowsInDocOrder ==
    /\ (lpc \in {"stacked", "restored"} /\ stacked.exc = "") =>
          \A i \in 1..6 : Row(stacked.arr, i - 1).data = layout[AttributeNames[i]].data
    /\ (lpc = "restored" /\ lret.exc = "") =>
          \A i \in 1..6 : lret.obj[AttributeNames[i]].data = Row(stacked.arr, i - 1).data

---------------------------------------------------------------------------
(* Properties of convert *)

InputShapeOf == heap[gather_info.input_shape.st]
IdxsOf == heap[gather_info.gather_idxs.st]
MaskOf == heap[gather_info.gather_mask.st]
AxesNorm == NormAxes(layout_axes, Len(arr.shape))
AxesBegin == AxesNorm[1]
AxesEnd == AxesNorm[Len(AxesNorm)] + 1
Returned == pc = "done" /\ ret.exc = ""
OutData == heap[ret.out.st]

\* layout_axes is a run of axes of arr (inside its rank)
AxesInRank ==
    /\ Len(layout_axes) > 0
    /\ AxesNorm = Range(AxesBegin, AxesEnd)
    /\ 0 <= AxesBegin /\ AxesEnd <= Len(arr.shape)

\* the array's layout axes have exactly the sizes of input_shape
LayoutMatches ==
    AxesInRank /\ SubSeq(arr.shape, AxesBegin + 1, AxesEnd) = InputShapeOf

IsIdentityMap ==
    /\ gather_info.gather_idxs.shape = InputShapeOf
    /\ IdxsOf = [i \in 1..Prod(InputShapeOf) |-> i - 1]
    /\ \A i \in 1..Len(MaskOf) : MaskOf[i] = 1

\* the array's layout axes have the sizes of input_shape, the first possibly
\* larger, and lie behind at most MaxBatchAxes batch axes
LayoutCovers ==
    /\ AxesInRank /\ AxesBegin <= MaxBatchAxes
    /\ Len(layout_axes) = Len(InputShapeOf)
    /\ arr.shape[AxesBegin + 1] >= InputShapeOf[1]
    /\ Tail(SubSeq(arr.shape, AxesBegin + 1, AxesEnd)) = Tail(InputShapeOf)
SameResult(a, b) ==
    /\ a.exc = "" /\ b.exc = ""
    /\ a.out.shape = b.out.shape /\ a.out.dtype = b.out.dtype
    /\ heap[a.out.st] = heap[b.out.st]

\* C14: convert accepts an array whose first layout axis is at least
\* input_shape[0] (later layout axes equal, at most MaxBatchAxes batch axes
\* before them), and when every gather index lies in
\* 0 .. prod(input_shape) - 1 its result equals that of converting the array
\* truncated along the first layout axis to input_shape[0].
C14_TruncationEquivalent ==
    (pc = "compared" /\ LayoutCovers) =>
        /\ ret.exc \in {"", "IndexError"}
        /\ (\A g \in 1..Len(IdxsOf) : IdxsOf[g] \in 0..(Prod(InputShapeOf) - 1)) =>
              SameResult(ret, tret)
C14_Witness ==
    /\ pc = "compared" /\ LayoutCovers
    /\ arr.shape[AxesBegin + 1] > InputShapeOf[1]
    /\ AxesBegin = 1
    /\ \E g \in 1..Len(IdxsOf) : IdxsOf[g] = 1 /\ MaskOf[g] = 1
    /\ \A g \in 1..Len(IdxsOf) : IdxsOf[g] \in 0..(Prod(InputShapeOf) - 1)
    /\ SameResult(ret, tret)

\* C14 as stated: the results are equal whenever every gather index lies below
\* prod(input_shape).
C14_EqualBelowProduct ==
    (pc = "compared" /\ LayoutCovers) =>
        /\ ret.exc \in {"", "IndexError"}
        /\ (\A g \in 1..Len(IdxsOf) : IdxsOf[g] < Prod(InputShapeOf)) =>
              SameResult(ret, tret)

OutG == Len(IdxsOf)
OutF == Prod(SubSeq(arr.shape, AxesEnd + 1, Len(arr.shape)))
OutL == Prod(SubSeq(arr.shape, AxesBegin + 1, Min2(AxesEnd, Len(arr.shape))))
\* gather position (1-based) of output element k, and the input element it reads
GatherPos(k) == (((k - 1) \div OutF) % OutG) + 1
SourcePos(k) ==
    LET b == (k - 1) \div (OutG * OutF)
        f == (k - 1) % OutF
        i == IdxsOf[GatherPos(k)]
    IN  b * OutL * OutF + (IF i < 0 THEN i + OutL ELSE i) * OutF + f + 1
SourceElem(k) == heap[arr.st][SourcePos(k)]

\* C2 as stated: every output element whose gather_mask entry is false is zero
\* (false for bool), whatever the input holds, and every element whose entry is
\* true equals the source element at gather_idxs.
C2_MaskedIsZero ==
    Returned =>
        \A k \in 1..Len(OutData) :
            /\ MaskOf[GatherPos(k)] = 0 => OutData[k] = 0
            /\ MaskOf[GatherPos(k)] = 1 => OutData[k] = SourceElem(k)

\* C3: for every accepted call the output shape is batch_shape + map.shape +
\* features_shape: the span of layout axes is replaced by the shape of gather_idxs
\* and the axes before and after it keep their size and position.
C3_OutputShape ==
    Returned =>
        ret.out.shape = SubSeq(arr.shape, 1, AxesBegin)
                        \o gather_info.gather_idxs.shape
                        \o SubSeq(arr.shape, AxesEnd + 1, Len(arr.shape))

C3_Witness ==
    /\ Returned
    /\ Len(gather_info.gather_idxs.shape) = 2 /\ Len(InputShapeOf) = 1
    /\ AxesBegin = 2 /\ AxesEnd < Len(arr.shape)
    /\ Len(ret.out.shape) = Len(arr.shape) + 1

\* The cases in which C4 says convert raises.
C4_NotConsecutive == AxesNorm # Range(AxesBegin, AxesEnd)
C4_CountDiffers == Len(layout_axes) # Len(InputShapeOf)
C4_FirstAxisSmaller ==
    /\ 0 <= AxesBegin /\ AxesBegin < Len(arr.shape)
    /\ arr.shape[AxesBegin + 1] < InputShapeOf[1]
C4_LaterAxisDiffers ==
    \E i \in 2..Min2(Len(AxesNorm), Len(InputShapeOf)) :
        /\ 0 <= AxesNorm[i] /\ AxesNorm[i] < Len(arr.shape)
        /\ arr.shape[AxesNorm[i] + 1] # InputShapeOf[i]
C4_TooManyBatchAxes == AxesBegin > MaxBatchAxes

\* C4: convert raises and returns no array when layout_axes (negative indices
\* normalized) is not a run of consecutive increasing axes, when the number of
\* layout axes differs from the number of entries of input_shape, when the first
\* layout axis is smaller than input_shape[0], when a later layout axis differs
\* from its input_shape entry, and when the layout axes begin after more than 4
\* batch axes.
C4_ConvertRaises ==
    (/\ pc = "done"
     /\ Len(layout_axes) > 0
     /\ \/ C4_NotConsecutive
        \/ C4_CountDiffers
        \/ C4_FirstAxisSmaller
        \/ C4_LaterAxisDiffers
        \/ C4_TooManyBatchAxes)
    => (ret.exc # "" /\ ret.out = NoTensor)

\* C5: convert has no side effects: after any call, successful or failing, the
\* input array, gather_idxs, gather_mask and input_shape hold the values they held
\* before; the result is a new array that shares no storage with the inputs and has
\* the input's dtype.
C5_NoSideEffects ==
    [][(pc = "call" /\ pc' = "done") =>
          /\ \A st \in 1..4 : heap'[st] = heap[st]
          /\ arr' = arr /\ gather_info' = gather_info /\ layout_axes' = layout_axes
          /\ ret'.exc = "" =>
                /\ ret'.out.st \notin {arr.st, gather_info.gather_idxs.st,
                                        gather_info.gather_mask.st,
                                        gather_info.input_shape.st}
                /\ ret'.out.dtype = arr.dtype
          /\ ret'.exc # "" => heap' = heap]_vars

C5_Witness ==
    /\ Returned
    /\ ret.out.st = 5 /\ ret.out.dtype = "float32"
    /\ \E i \in 1..Len(MaskOf) : MaskOf[i] = 0
    /\ OutData # heap[arr.st]

Spec == SpecConvert
=============================================================================
